---- MODULE Spec2Model ----
(***************************************************************************)
(* One SimulationInstance of simulation_manager.py, the asyncio tasks that *)
(* act on it, and the registry entry that holds it; then the registry of   *)
(* SimulationManager with the request validation of main.py; then one tick *)
(* of the flock engine of backend/models/swarm.py; then the tick loop      *)
(* statement by statement, with the lock of the instance; then the         *)
(* handlers of simulation_stream of main.py, the callers of register().    *)
(* Each part has its own variables and its own specification, which leaves *)
(* the variables of the other parts as they are; RegLoopSpec and           *)
(* WriterSpec put the registry and the flock engine next to a ticking      *)
(* instance.                                                               *)
(*                                                                         *)
(* asyncio runs one task at a time and switches tasks only where a task    *)
(* suspends.  In this code the only suspensions are                        *)
(*   - `await asyncio.sleep(update_interval)` in _run (update_interval>0), *)
(*   - `await self._runner_task` in _stop when that task is not done.      *)
(* `async with self._lock` never suspends: both critical sections          *)
(* (snapshot, the tick of _run) contain no await, so the lock is always    *)
(* free when a task asks for it.  `await subscriber.put()` never suspends: *)
(* the queues are unbounded.  `await self._start()` and `await             *)
(* self._stop()` run the coroutine inline.  Each action below is therefore *)
(* one run of a task from one suspension point to the next.                *)
(***************************************************************************)
EXTENDS Naturals, Integers, Sequences, FiniteSets

\* Bounds of the model: the largest tick number, the number of register() calls,
\* the number of _stop tasks that are created and have not run yet, the number
\* of agents (settings.num_agents).
MaxTick == 2
MaxChan == 3
MaxStops == 1
NumAgents == 2

\* The number of instances that are constructed.
MaxSims == 2

\* The number of agents of the flock engine.
FlockSize == 3

Chans == 1..MaxChan
\* Every _run task is created by one register() call: there are at most MaxChan.
TaskIds == 1..MaxChan
Agents == 1..NumAgents
\* Simulation ids: 0 was never given out, 1..MaxSims are given out by the
\* creates in their order, and the last one is the id of the instance of the
\* first part, which was constructed and stored before the first create.
SimIds == 0..(MaxSims + 1)
instance_id == MaxSims + 1

\* range(self.num_agents) of the flock engine, from 1.
Fish == 1..FlockSize

\* main.py, SimulationCreateRequest: Field(ge=1, le=500) of num_agents.
num_agents_ge == 1
num_agents_le == 500
\* MODE_LOOKUP: the values of Mode.
MODE_LOOKUP == {"swarm", "torus", "hpp", "dpp"}

\* The create requests of the model: agent counts around both limits, times
\* (timestep, update_interval; the unit does not matter) around zero, the first
\* and the last mode and a name that is none.
NumAgentsInputs == {num_agents_ge - 1, num_agents_ge, num_agents_le, num_agents_le + 1}
TimeInputs == {-1, 0, 1}
ModeInputs == {"swarm", "dpp", "boids"}
Requests ==
    [num_agents : NumAgentsInputs, mode : ModeInputs,
     timestep : TimeInputs, update_interval : TimeInputs]

VARIABLES
    tick,           \* self.tick
    agents,         \* self.model.agents: per agent, how often step() updated it
    subscribers,    \* self._subscribers (queues are named by their creation number)
    running,        \* self._running
    runner_task,    \* self._runner_task: a task id, or 0 for None
    task_state,     \* per _run task: "none" (not created), "new" (created, first
                    \* step pending), "sleeping" (suspended in asyncio.sleep), "done"
                    \* (returned), "failed" (ended with an exception)
    task_cancel,    \* per _run task: cancel() was called and is not yet delivered
    n_chans,        \* number of queues created by register() so far
    queues,         \* per queue: every payload put on it, in order, until its
                    \* owner unregisters it
    stop_new,       \* number of _stop tasks created by unregister(), not yet run
    stop_wait,      \* per _run task: number of _stop tasks suspended in `await` on it
    close_pc,       \* close(): "none" (not called), "awaiting" (inside _stop),
                    \* "done" (returned), "raised" (left by an exception)
    close_wait,     \* the _run task close()'s _stop awaits, or 0
    registered,     \* the instance is in SimulationManager._instances
    snaps           \* the last two results of snapshot(), oldest first

\* SimulationManager and the create request of main.py.  A simulation id is the
\* creation number of its instance (uuid4 never repeats); 0 is an id that was
\* never given out.
VARIABLES
    instances,      \* the keys of SimulationManager._instances
    settings,       \* the settings of every instance constructed so far, by id
    closing,        \* per id: delete() calls suspended in `await instance.close()`
    deleted,        \* per id: delete() calls that returned True
    closes,         \* per id: close() calls made on the instance
    resp,           \* the last call on the service and its result
    reg_lock,       \* SimulationManager._lock: 0 when free, or the id of the
                    \* simulation whose delete() holds it, plus one
    sims            \* every created instance, by id: its tick (self.tick), its
                    \* running (self._running), its runner_task: "none" (None),
                    \* "live" (the _run task is pending), "cancelled" (pending,
                    \* cancel() called), "done" (returned) or "failed" (ended
                    \* with an exception), and its handler, the call of
                    \* simulation_stream made with its id: "none" (not made),
                    \* "accepting" (suspended in websocket.accept(), line 110),
                    \* "registered" (past line 116) or "left" (past line
                    \* 132), and its stop, the _stop task its unregister()
                    \* created: "none" (not created, or over), "new" (not run
                    \* yet) or "awaiting" (suspended at line 86)

\* One BaseSwarmModel of backend/models/swarm.py.
\*
\* Numbers.  The agents of the model stand on the x axis at whole coordinates
\* and head along a direction of the x-y plane; their speed is 1.  An array of
\* the code is a record [num, den2, w]: the vector num / sqrt(den2) with num a
\* pair of integers, stored in floating point of width w.  w is "exact" when
\* every component is a whole number, which float32 and float64 both hold
\* exactly, and "f64" or "f32" otherwise: the same real number stored in the
\* two widths is two different tuples of Python floats.  The accumulated
\* direction of an agent is kept in tenths, as a pair of integers.
VARIABLES
    flock_mode,     \* self.mode, by its value
    flock,          \* self.agents: per agent its pos, [x, moved]: the point
                    \* (x, 0) displaced by moved * speed * timestep, and its
                    \* velocity_unit_vector
    flock_table,    \* agent_distance_magnitude_table and
                    \* agent_distance_vector_table, entry by entry
    flock_ticks,    \* number of step() calls made
    flock_prev      \* self.agents as it was when the last step() was called

inst_vars == <<tick, agents, subscribers, running, runner_task, task_state,
               task_cancel, n_chans, queues, stop_new, stop_wait, close_pc,
               close_wait, registered, snaps>>

reg_vars == <<instances, settings, closing, deleted, closes, resp, reg_lock,
              sims>>

flock_vars == <<flock_mode, flock, flock_table, flock_ticks, flock_prev>>

\* _run statement by statement.  One task runs at a time, from where it resumed
\* to where it suspends next; nothing else runs in between.
VARIABLES
    lock,           \* self._lock: the _run task that holds it, or 0 when free
    cpu,            \* the _run task that is running, or 0 when none is
    run_pc          \* where the running task is: "test" (line 93), "locked"
                    \* (inside `async with`, before line 95), "broadcast"
                    \* (line 102), or "idle" when no task is running

lock_vars == <<lock, cpu, run_pc>>

\* simulation_stream of main.py, one call per queue: the handler registers,
\* takes its snapshot and relays the queue until it unregisters.
VARIABLES
    baseline        \* per queue: the tick of the snapshot its handler took after
                    \* register(), or -1 when the handler has not started or
                    \* has returned

stream_vars == <<baseline>>

vars == <<inst_vars, reg_vars, flock_vars, lock_vars, stream_vars>>

\* What an operation of the instance, of the registry, or of the flock engine
\* cannot touch.
outside_instance == <<reg_vars, flock_vars, lock_vars, stream_vars>>
outside_registry == <<inst_vars, flock_vars, lock_vars, stream_vars>>
outside_flock == <<inst_vars, reg_vars, lock_vars, stream_vars>>
outside_loop_steps == <<reg_vars, flock_vars, stream_vars>>

\* ------------------------------------------------------------------ helpers

\* Task.done(): the task returned, or ended with an exception.
done(r) == task_state[r] \in {"done", "failed"}

\* The task ended with an exception other than CancelledError, which _run does
\* not catch (line 104); awaiting the task raises it again.
failed(r) == task_state[r] = "failed"

\* A _run task that was created and has not exited.
live(r) == task_state[r] \in {"new", "sleeping"}

\* The id create_task gives the next _run task.
new_task == Cardinality({r \in TaskIds : task_state[r] # "none"}) + 1

\* BaseSwarmModel.step: every agent is updated once.  (step_skips_last: the loop
\* over range(num_agents) stops one agent short.)
step_skips_last(a) == [i \in Agents |-> IF i < NumAgents THEN a[i] + 1 ELSE a[i]]
step(a) == [i \in Agents |-> a[i] + 1]

\* self.tick += 1.  (inc_tick_stuck: the increment is lost; inc_tick_twice: it
\* is applied twice.)
inc_tick_stuck(t) == t
inc_tick_twice(t) == t + 2
inc_tick(t) == t + 1

\* The payload _run builds under the lock.
tick_payload(t, a) == [type |-> "tick", tick |-> t, agents |-> a]

shutdown_payload == [type |-> "shutdown"]

\* _broadcast: put the payload on every queue of the subscriber set.  The queues
\* are unbounded (line 62), so put() never waits for a consumer.
\* (broadcast_full_skipped: a queue that already holds a payload gets none.)
broadcast_full_skipped(qs, subs, p) ==
    [q \in Chans |-> IF q \in subs /\ qs[q] = <<>> THEN Append(qs[q], p) ELSE qs[q]]
broadcast(qs, subs, p) ==
    [q \in Chans |-> IF q \in subs THEN Append(qs[q], p) ELSE qs[q]]

\* register(), line 64: the loop is started when the instance is not running.
\* (needs_start_inverted: the test is inverted.)
needs_start_inverted == running
needs_start == ~running

\* _start(), line 74: a runner task that is not done blocks the start.
start_blocked == runner_task # 0 /\ ~done(runner_task)

\* unregister(), line 70: a _stop task is created when no subscriber is left.
\* (stop_needed_inverted: the test is inverted.)
stop_needed_inverted(subs) == subs # {}
stop_needed(subs) == subs = {}

\* _stop(), lines 80-86: it cancels the runner task and suspends in the await when
\* the instance is running and that task is not done.
stop_suspends == running /\ runner_task # 0 /\ ~done(runner_task)

\* _stop(), line 84: Task.cancel() is a request, and has no effect on a done task.
stop_task_cancel ==
    IF stop_suspends THEN [task_cancel EXCEPT ![runner_task] = TRUE] ELSE task_cancel

\* _stop(), lines 86-89, when the awaited task has already returned: the await
\* returns at once and the handle is cleared.  Otherwise the handle is as it was.
stop_handle ==
    IF running /\ runner_task # 0 /\ done(runner_task) /\ ~failed(runner_task)
    THEN 0
    ELSE runner_task

\* _stop(), lines 86-87, when the awaited task has ended with an exception: the
\* await raises it, only CancelledError is caught, and _stop() ends there.
stop_raises == running /\ runner_task # 0 /\ failed(runner_task)

\* close(), lines 115-117, after its _stop() returned leaving `handle`.
close_finish(handle) ==
    /\ runner_task' = handle
    /\ queues' = broadcast(queues, subscribers, shutdown_payload)
    /\ subscribers' = {}
    /\ close_pc' = "done"
    /\ close_wait' = 0

\* close(), line 115, when its _stop() raised: lines 116-117 are not reached and
\* the exception leaves close() and delete().
close_raise ==
    /\ close_pc' = "raised"
    /\ close_wait' = 0
    /\ UNCHANGED <<runner_task, queues, subscribers>>

\* main.py, SimulationCreateRequest: what pydantic checks before the handler runs.
\* (num_agents_valid_from_zero: the lower limit is ge=0.)
num_agents_valid_from_zero(n) == n >= 0 /\ n <= num_agents_le
num_agents_valid(n) == n >= num_agents_ge /\ n <= num_agents_le

validate_mode(m) == m \in MODE_LOOKUP

SimulationCreateRequest(req) ==
    /\ num_agents_valid(req.num_agents)
    /\ validate_mode(req.mode)
    /\ req.timestep > 0
    /\ req.update_interval > 0

\* create_simulation, lines 61-67: the settings built from an accepted request.
\* The mode is named by its value.
SimulationSettings(req) ==
    [num_agents |-> req.num_agents, mode |-> req.mode,
     timestep |-> req.timestep, update_interval |-> req.update_interval]

\* snapshot(), line 51: the tick of the result is self.tick, read under the lock.
\* (snapshot_tick_behind: it is the tick before the last increment.)
snapshot_tick_behind(t) == IF t > 0 THEN t - 1 ELSE t
snapshot_tick(t) == t

\* SimulationManager.delete, line 149: dict.pop removes the key.
\* (pop_kept: the entry is read with dict.get and stays.)
pop_kept(insts, id) == insts
pop(insts, id) == insts \ {id}

\* SimulationManager.delete, lines 148-152: the holder of the registry lock when
\* close() is called: the `async with` block ends after the pop, before line
\* 150.  (registry_lock_held: close() is awaited inside the block.)
registry_lock_held(id) == id + 1
registry_lock_after_pop(id) == 0

\* SimulationInstance.__init__, lines 33-37, of a created instance; no call of
\* simulation_stream was made with its id yet.
SimulationInstance ==
    [tick |-> 0, running |-> FALSE, runner_task |-> "none", handler |-> "none",
     stop |-> "none"]

\* self.settings of the instance of the first part: as many agents as its
\* model has (those of the flock engine when the engine is its model), in the
\* mode of the engine.
instance_num_agents == IF flock = <<>> THEN NumAgents ELSE FlockSize

\* The k-th key of a dict whose keys were inserted in increasing order.
nth_key(insts, k) ==
    CHOOSE id \in insts : Cardinality({j \in insts : j < id}) = k - 1

\* list_simulations, lines 137-145: one item per entry of the dict, in the
\* order of insertion, with the tick the instance has at the call (line 142).
list_items(insts, sets, objs) ==
    [k \in 1..Cardinality(insts) |->
        LET id == nth_key(insts, k)
        IN  [simulation_id |-> id, num_agents |-> sets[id].num_agents,
             mode |-> sets[id].mode, tick |-> objs[id].tick]]

\* The item of the instance of the first part, while it is in the dict.
instance_item ==
    IF registered
    THEN <<[simulation_id |-> instance_id, num_agents |-> instance_num_agents,
            mode |-> flock_mode, tick |-> tick]>>
    ELSE <<>>

\* ----------------------------------------------------------- flock engine

Abs(n) == IF n < 0 THEN -n ELSE n

RECURSIVE Gcd(_, _)
Gcd(a, b) == IF b = 0 THEN a ELSE Gcd(b, a % b)

\* An array whose components are all zero.
zero_vector == [num |-> <<0, 0>>, den2 |-> 1, w |-> "exact"]

\* The array num / sqrt(den2) held in width w.
array(num, den2, w) ==
    [num |-> num, den2 |-> den2, w |-> IF den2 = 1 THEN "exact" ELSE w]

\* np.array(..., dtype=np.float32), and an assignment into the float32 array
\* agent_new_direction: the components are rounded to float32.
float32(a) == array(a.num, a.den2, "f32")

\* swarm.py unit_vector, lines 14-17, of the vector with whole components v,
\* computed in width w: v / |v|, and v itself when its magnitude is 0.
unit_vector(v, w) ==
    IF v = <<0, 0>>
    THEN zero_vector
    ELSE LET g == Gcd(Abs(v[1]), Abs(v[2]))
             p == <<v[1] \div g, v[2] \div g>>
         IN  array(p, p[1] * p[1] + p[2] * p[2], w)

\* The components of an array in tenths.  The headings the model starts from
\* have components that are whole tenths (isqrt is exact for them).
isqrt(n) == CHOOSE r \in 0..n : r * r <= n /\ (r + 1) * (r + 1) > n
tenths(a) ==
    <<(10 * a.num[1]) \div isqrt(a.den2), (10 * a.num[2]) \div isqrt(a.den2)>>

add(u, v) == <<u[1] + v[1], u[2] + v[2]>>
neg(u) == <<-u[1], -u[2]>>
half(u) == <<u[1] \div 2, u[2] \div 2>>
twice(u) == <<2 * u[1], 2 * u[2]>>

\* The zone radii of the four model classes (lines 153-198), in tenths.
zones(mode) ==
    CASE mode = "swarm" -> [zor |-> 20, zoo |-> 30, zoa |-> 70]
      [] mode = "torus" -> [zor |-> 3, zoo |-> 8, zoa |-> 150]
      [] mode = "hpp" -> [zor |-> 5, zoo |-> 100, zoa |-> 200]
      [] mode = "dpp" -> [zor |-> 2, zoo |-> 40, zoa |-> 100]

\* The agents step() starts from in the model: positions in every zone of
\* another for both modes, headings along the axis both ways and along (3, 4),
\* which float32 does not hold exactly.
FlockModes == {"swarm", "hpp"}
Positions == {0, 1, 3, 6, 20}
HeadingInputs ==
    {array(<<1, 0>>, 1, "f64"), array(<<-1, 0>>, 1, "f64"), array(<<3, 4>>, 25, "f64")}
AgentInputs ==
    {[pos |-> [x |-> x, moved |-> zero_vector], velocity_unit_vector |-> h] :
         x \in Positions, h \in HeadingInputs}

\* An entry of the two tables: np.inf, or the distance and the unit vector.
inf_entry == [inf |-> TRUE, mag |-> 0, vec |-> zero_vector]
\* np.full(..., np.inf), lines 31-32 and 124-125.
inf_table == [i \in Fish |-> [j \in Fish |-> inf_entry]]

\* Lines 76-84 for the pair i, j: the unit vector from i toward j (float64) and
\* the distance.
measured(ag, i, j) ==
    [inf |-> FALSE,
     mag |-> Abs(ag[j].pos.x - ag[i].pos.x),
     vec |-> unit_vector(<<ag[j].pos.x - ag[i].pos.x, 0>>, "f64")]

\* update_agent_distance_table: a pair is measured, both ways, when one of its
\* two entries is np.inf; the diagonal is never written.
update_agent_distance_table(tbl, ag) ==
    [i \in Fish |-> [j \in Fish |->
        IF i # j /\ (tbl[i][j].inf \/ tbl[j][i].inf)
        THEN measured(ag, i, j)
        ELSE tbl[i][j]]]

\* Lines 124-125: both tables are built anew, full of np.inf, when the
\* directions are computed.  (table_kept: they are left as measured.)
table_kept(tbl) == tbl
table_reset(tbl) == inf_table

\* distance <= radius and distance > radius for a table entry; np.inf is
\* greater than every radius.
within(e, radius) == ~e.inf /\ 10 * e.mag <= radius
beyond(e, radius) == e.inf \/ 10 * e.mag > radius

\* Line 93: some entry of the row of i is within zor.
repulsion_mode(tbl, z, i) == \E j \in Fish : within(tbl[i][j], z.zor)

\* Line 102: in repulsion mode a neighbour beyond zor is skipped.
\* (far_skipped_never: the branch is missing.)
far_skipped_never(rp, e, z) == FALSE
far_skipped(rp, e, z) == rp /\ beyond(e, z.zor)

\* Lines 107-109: half the heading of an orientation-zone neighbour.
\* (orientation_term_toward: half the unit vector toward it.)
orientation_term_toward(ag, e, j) == half(tenths(e.vec))
orientation_term(ag, e, j) == half(tenths(ag[j].velocity_unit_vector))

\* Lines 98-113 for one j: its zone and what it adds to agent_new_direction[i].
influence(ag, tbl, z, i, j, rp) ==
    LET e == tbl[i][j]
    IN  IF i = j THEN [zone |-> "self", v |-> <<0, 0>>]
        ELSE IF far_skipped(rp, e, z) THEN [zone |-> "skipped", v |-> <<0, 0>>]
        ELSE IF rp /\ within(e, z.zor)
             THEN [zone |-> "repulsion", v |-> neg(tenths(e.vec))]
        ELSE IF beyond(e, z.zor) /\ within(e, z.zoo)
             THEN [zone |-> "orientation", v |-> orientation_term(ag, e, j)]
        ELSE IF beyond(e, z.zoo) /\ within(e, z.zoa)
             THEN [zone |-> "attraction", v |-> half(tenths(e.vec))]
        ELSE [zone |-> "none", v |-> <<0, 0>>]

\* The loop of lines 98-113 from j on: the sum and the two flags.
RECURSIVE accumulate(_, _, _, _, _, _)
accumulate(ag, tbl, z, i, j, rp) ==
    IF j > FlockSize
    THEN [v |-> <<0, 0>>, flag_o |-> FALSE, flag_a |-> FALSE]
    ELSE LET c == influence(ag, tbl, z, i, j, rp)
             rest == accumulate(ag, tbl, z, i, j + 1, rp)
         IN  [v |-> add(c.v, rest.v),
              flag_o |-> rest.flag_o \/ c.zone = "orientation",
              flag_a |-> rest.flag_a \/ c.zone = "attraction"]

\* Lines 92-116: agent_new_direction[i] before it is normalised, in tenths.
accumulated(ag, tbl, z, i) ==
    LET rp == repulsion_mode(tbl, z, i)
        acc == accumulate(ag, tbl, z, i, 1, rp)
    IN  IF ~rp /\ ~(acc.flag_o /\ acc.flag_a) THEN twice(acc.v) ELSE acc.v

\* Lines 118-122: agent_new_direction[i], a float32 row, at the end of the
\* iteration for i.
new_direction(ag, tbl, z, i) ==
    LET d == accumulated(ag, tbl, z, i)
    IN  IF d # <<0, 0>>
        THEN unit_vector(d, "f32")
        ELSE float32(ag[i].velocity_unit_vector)

\* What the iteration for i leaves of self.agents: it writes
\* agent_new_direction only.  (heading_written: it stores the new direction as
\* the heading of i at once.)
heading_written(ag, i, d) == [ag EXCEPT ![i].velocity_unit_vector = d]
agents_after(ag, i, d) == ag

\* The loop of lines 91-122 over the agents in `order`.
RECURSIVE update_agents(_, _, _, _, _)
update_agents(order, ag, tbl, z, dirs) ==
    IF order = <<>>
    THEN dirs
    ELSE LET i == Head(order)
             d == new_direction(ag, tbl, z, i)
         IN  update_agents(Tail(order), agents_after(ag, i, d), tbl, z,
                           [dirs EXCEPT ![i] = d])

\* range(self.num_agents)
agent_order == [i \in Fish |-> i]

\* _common_update_logic up to line 122: agent_new_direction.
common_update_logic(order, ag, tbl, mode) ==
    update_agents(order, ag, update_agent_distance_table(tbl, ag), zones(mode),
                  [i \in Fish |-> zero_vector])

\* step(), lines 132-139, for one agent: its new heading.
step_direction(a, d) ==
    IF d.num = <<0, 0>>
    THEN float32(a.velocity_unit_vector)
    ELSE unit_vector(d.num, "f32")

\* step(), lines 139-141, for one agent: its position displaced along its new
\* heading h by speed * timestep.  (new_position_old_heading: along the heading
\* it had.)
new_position_old_heading(a, h) == [x |-> a.pos.x, moved |-> a.velocity_unit_vector]
new_position(a, h) == [x |-> a.pos.x, moved |-> h]

\* step(): self.agents after the call.
swarm_step(ag, tbl, mode) ==
    LET dirs == common_update_logic(agent_order, ag, tbl, mode)
    IN  [i \in Fish |->
            [pos |-> new_position(ag[i], step_direction(ag[i], dirs[i])),
             velocity_unit_vector |-> step_direction(ag[i], dirs[i])]]

\* ------------------------------------------------------------------ state

InstInit ==
    /\ tick = 0
    /\ agents = [i \in Agents |-> 0]
    /\ subscribers = {}
    /\ running = FALSE
    /\ runner_task = 0
    /\ task_state = [r \in TaskIds |-> "none"]
    /\ task_cancel = [r \in TaskIds |-> FALSE]
    /\ n_chans = 0
    /\ queues = [q \in Chans |-> <<>>]
    /\ stop_new = 0
    /\ stop_wait = [r \in TaskIds |-> 0]
    /\ close_pc = "none"
    /\ close_wait = 0
    /\ registered = TRUE
    /\ snaps = <<>>

\* SimulationManager.__init__, with nothing created or called yet.
RegInit ==
    /\ instances = {}
    /\ settings = <<>>
    /\ closing = [id \in SimIds |-> 0]
    /\ deleted = [id \in SimIds |-> 0]
    /\ closes = [id \in SimIds |-> 0]
    /\ resp = [op |-> "none"]
    /\ reg_lock = 0
    /\ sims = <<>>

\* A model on which step() is about to be called for the first time.
FlockBuilt ==
    /\ flock_mode \in FlockModes
    /\ flock \in [Fish -> AgentInputs]
    /\ flock_table = inf_table
    /\ flock_ticks = 0
    /\ flock_prev = flock

\* The flock engine while the other parts are looked at: no model has been
\* handed to it, so there are no agents and no table entries.
FlockIdle ==
    /\ flock_mode = "swarm"
    /\ flock = <<>>
    /\ flock_table = <<>>
    /\ flock_ticks = 0
    /\ flock_prev = flock

\* asyncio.Lock() of line 35, free, and no task running.
LockInit ==
    /\ lock = 0
    /\ cpu = 0
    /\ run_pc = "idle"

\* No handler of simulation_stream has started.
StreamInit == baseline = [q \in Chans |-> -1]

Init == InstInit /\ RegInit /\ FlockIdle /\ LockInit /\ StreamInit

\* The model of an instance that is about to tick for the first time, agent by
\* agent: two agents of the flock inputs, one of which turns the other.
WriterAgents ==
    {a \in AgentInputs :
        \/ a.pos.x = 0 /\ a.velocity_unit_vector.num = <<1, 0>>
        \/ a.pos.x = 3 /\ a.velocity_unit_vector.num = <<3, 4>>}

\* Every agent but the last stands at the origin: the last one stands with
\* them, or apart from them and is turned by them.
WriterFlock ==
    /\ flock_mode = "swarm"
    /\ flock \in {f \in [Fish -> WriterAgents] :
                     \A i \in 1..(FlockSize - 1) : f[i].pos.x = 0}
    /\ flock_table = inf_table
    /\ flock_ticks = 0
    /\ flock_prev = flock

WriterInit == InstInit /\ RegInit /\ WriterFlock /\ LockInit /\ StreamInit

FlockInit == InstInit /\ RegInit /\ FlockBuilt /\ LockInit /\ StreamInit

\* ------------------------------------------------------------------ actions

\* SimulationInstance.snapshot
snapshot ==
    /\ snaps' = (IF Len(snaps) < 2 THEN snaps ELSE Tail(snaps))
                    \o <<[tick |-> tick, agents |-> agents]>>
    /\ UNCHANGED <<tick, agents, subscribers, running, runner_task, task_state,
                   task_cancel, n_chans, queues, stop_new, stop_wait, close_pc,
                   close_wait, registered>>
    /\ UNCHANGED outside_instance

\* SimulationInstance.register with the _start() it awaits.  The caller holds the
\* instance it got from SimulationManager.get, possibly from before a delete.
\* The first two conjuncts are the bounds: a queue registered at the last tick
\* number could never be served.
register ==
    /\ n_chans < MaxChan
    /\ tick < MaxTick
    /\ n_chans' = n_chans + 1
    /\ subscribers' = subscribers \cup {n_chans + 1}
    /\ IF needs_start /\ ~start_blocked
       THEN /\ running' = TRUE
            /\ runner_task' = new_task
            /\ task_state' = [task_state EXCEPT ![new_task] = "new"]
       ELSE UNCHANGED <<running, runner_task, task_state>>
    /\ UNCHANGED <<tick, agents, task_cancel, queues, stop_new, stop_wait, close_pc,
                   close_wait, registered, snaps>>
    /\ UNCHANGED outside_instance

\* SimulationInstance.unregister, with any queue register() has returned, in the
\* subscriber set or not.  Its caller is simulation_stream's `finally`, which then
\* returns: the queue is unreachable from then on and leaves the model.
unregister(q) ==
    /\ subscribers' = subscribers \ {q}
    /\ queues' = [queues EXCEPT ![q] = <<>>]
    /\ IF stop_needed(subscribers')
       THEN stop_new < MaxStops /\ stop_new' = stop_new + 1
       ELSE stop_new' = stop_new
    /\ UNCHANGED <<tick, agents, running, runner_task, task_state, task_cancel,
                   n_chans, stop_wait, close_pc, close_wait, registered,
                   snaps>>
    /\ UNCHANGED outside_instance

\* A _stop task created by unregister runs from its start to its await or its end.
\* When the instance is not running it returns at once (line 81) and nothing
\* changes: stop_suspends is false, stop_task_cancel and stop_handle are the old
\* values.
stop_begin ==
    /\ stop_new > 0
    /\ stop_new' = stop_new - 1
    /\ running' = FALSE
    /\ task_cancel' = stop_task_cancel
    /\ runner_task' = stop_handle
    /\ stop_wait' = IF stop_suspends
                    THEN [stop_wait EXCEPT ![runner_task] = @ + 1]
                    ELSE stop_wait
    /\ UNCHANGED <<tick, agents, subscribers, task_state, n_chans, queues, close_pc,
                   close_wait, registered, snaps>>
    /\ UNCHANGED outside_instance

\* A suspended _stop task resumes once the task it awaits is done: line 89.
stop_resume(r) ==
    /\ stop_wait[r] > 0
    /\ done(r)
    /\ stop_wait' = [stop_wait EXCEPT ![r] = @ - 1]
    /\ runner_task' = IF failed(r) THEN runner_task ELSE 0
    /\ UNCHANGED <<tick, agents, subscribers, running, task_state, task_cancel,
                   n_chans, queues, stop_new, close_pc, close_wait, registered, snaps>>
    /\ UNCHANGED outside_instance

\* One run of a _run task: from its start or from its sleep to the next sleep or
\* to its end.  A pending cancel() raises CancelledError at the suspension point.
\* The first conjunct of the tick is the bound of the tick counter: the model
\* follows the instance up to tick MaxTick.
run(r) ==
    /\ live(r)
    /\ IF task_cancel[r] \/ ~running
       THEN /\ task_state' = [task_state EXCEPT ![r] = "done"]
            /\ task_cancel' = [task_cancel EXCEPT ![r] = FALSE]
            /\ UNCHANGED <<tick, agents, queues>>
       ELSE /\ tick < MaxTick
            /\ agents' = step(agents)
            /\ tick' = inc_tick(tick)
            /\ queues' = broadcast(queues, subscribers, tick_payload(tick', agents'))
            /\ task_state' = [task_state EXCEPT ![r] = "sleeping"]
            /\ UNCHANGED task_cancel
    /\ UNCHANGED <<subscribers, running, runner_task, n_chans, stop_new, stop_wait,
                   close_pc, close_wait, registered, snaps>>
    /\ UNCHANGED outside_instance

\* A tick of a _run task in which model.step raises an exception other than
\* CancelledError, after it updated the first k agents: `async with` releases
\* the lock, lines 96-103 are skipped, and the exception ends the task (line 104
\* catches CancelledError only).  _running is left as it was.
step_upto(a, k) == [i \in Agents |-> IF i <= k THEN a[i] + 1 ELSE a[i]]

run_raises(r) ==
    /\ live(r)
    /\ ~task_cancel[r]
    /\ running
    /\ \E k \in 0..(NumAgents - 1) : agents' = step_upto(agents, k)
    /\ task_state' = [task_state EXCEPT ![r] = "failed"]
    /\ UNCHANGED <<tick, subscribers, running, runner_task, task_cancel, n_chans,
                   queues, stop_new, stop_wait, close_pc, close_wait, registered,
                   snaps>>
    /\ UNCHANGED outside_instance

\* SimulationManager.delete of the instance, lines 149-152: the entry is popped
\* and close() runs to the await inside its _stop(), or to its end.
delete_steps ==
    /\ registered
    /\ registered' = FALSE
    /\ running' = FALSE
    /\ task_cancel' = stop_task_cancel
    /\ IF stop_suspends
       THEN /\ close_pc' = "awaiting"
            /\ close_wait' = runner_task
            /\ UNCHANGED <<runner_task, queues, subscribers>>
       ELSE IF stop_raises THEN close_raise ELSE close_finish(stop_handle)
    /\ UNCHANGED <<tick, agents, task_state, n_chans, stop_new, stop_wait, snaps>>

\* SimulationManager.delete, as the instance sees it.
delete ==
    /\ delete_steps
    /\ UNCHANGED outside_instance

\* close() resumes once the task its _stop() awaits is done: lines 89, 115-117.
close_resume_steps ==
    /\ close_pc = "awaiting"
    /\ done(close_wait)
    /\ IF failed(close_wait) THEN close_raise ELSE close_finish(0)
    /\ UNCHANGED <<tick, agents, running, task_state, task_cancel, n_chans, stop_new,
                   stop_wait, registered, snaps>>

close_resume ==
    /\ close_resume_steps
    /\ UNCHANGED outside_instance

\* POST /api/simulations: pydantic validates the body; an accepted request
\* reaches create_simulation, which builds the settings, and
\* SimulationManager.create, which constructs the instance and stores it.  A
\* rejected request is answered 422 by the framework and the handler never runs.
create_simulation(req) ==
    /\ Len(settings) < MaxSims
    /\ IF SimulationCreateRequest(req)
       THEN /\ reg_lock = 0
            /\ settings' = Append(settings, SimulationSettings(req))
            /\ sims' = Append(sims, SimulationInstance)
            /\ instances' = instances \cup {Len(settings) + 1}
            /\ resp' = [op |-> "create", req |-> req, status |-> "created",
                        id |-> Len(settings) + 1]
       ELSE /\ resp' = [op |-> "create", req |-> req, status |-> "invalid",
                        id |-> 0]
            /\ UNCHANGED <<instances, settings, sims>>
    /\ UNCHANGED <<closing, deleted, closes, reg_lock>>
    /\ UNCHANGED outside_registry

\* self._instances.get(id) is not None.
in_dict(id) == id \in instances \/ (id = instance_id /\ registered)

\* SimulationManager.get.  `async with self._lock` waits while the lock is held.
get(id) ==
    /\ reg_lock = 0
    /\ resp' = [op |-> "get", id |-> id,
                status |-> IF in_dict(id) THEN "found" ELSE "not_found"]
    /\ UNCHANGED <<instances, settings, closing, deleted, closes, reg_lock, sims>>
    /\ UNCHANGED outside_registry

\* SimulationManager.list_simulations: the instance of the first part, when it
\* is in the dict, then the created instances.
list_simulations ==
    /\ reg_lock = 0
    /\ resp' = [op |-> "list",
                items |-> instance_item \o list_items(instances, settings, sims)]
    /\ UNCHANGED <<instances, settings, closing, deleted, closes, reg_lock, sims>>
    /\ UNCHANGED outside_registry

\* simulation_stream, main.py lines 109-110, with the id of a created instance
\* that is in the dict: the handler gets the instance from the registry and
\* suspends in websocket.accept().  One handler is opened per created
\* instance: it unregisters when it leaves, and no second one follows it.
\* (With an id that is not in the dict the handler answers an error and
\* returns: it changes nothing.)
stream_get(id) ==
    /\ reg_lock = 0
    /\ id \in instances
    /\ sims[id].handler = "none"
    /\ sims' = [sims EXCEPT ![id].handler = "accepting"]
    /\ UNCHANGED <<instances, settings, closing, deleted, closes, resp, reg_lock>>
    /\ UNCHANGED outside_registry

\* _start(), lines 74-77, of a created instance: what register() leaves of
\* _running and of the task handle.
sim_start(o) ==
    IF o.running \/ o.runner_task \in {"live", "cancelled"}
    THEN o
    ELSE [o EXCEPT !.running = TRUE, !.runner_task = "live"]

\* simulation_stream, lines 116-118: the handler resumes from accept() and
\* registers on the instance it holds, in the dict or not; register() starts
\* the loop when the instance is not running; snapshot() reads only.
stream_register(id) ==
    /\ id \in 1..Len(sims)
    /\ sims[id].handler = "accepting"
    /\ sims' = [sims EXCEPT ![id] = [sim_start(@) EXCEPT !.handler = "registered"]]
    /\ UNCHANGED <<instances, settings, closing, deleted, closes, resp, reg_lock>>
    /\ UNCHANGED outside_registry

\* simulation_stream, lines 131-132: the handler of a created instance leaves
\* its loop, because its client went away or because it relayed the shutdown
\* marker, and unregisters its queue (lines 68-71): the queue was the only one
\* of the set, or close() has cleared the set, and a _stop task is created.
stream_unregister(id) ==
    /\ id \in 1..Len(sims)
    /\ sims[id].handler = "registered"
    /\ sims' = [sims EXCEPT ![id].handler = "left", ![id].stop = "new"]
    /\ UNCHANGED <<instances, settings, closing, deleted, closes, resp, reg_lock>>
    /\ UNCHANGED outside_registry

\* The _stop task of a created instance runs from its start to its await or
\* to its end, lines 80-86: it returns at once when the instance is not
\* running; otherwise it clears _running and cancels the loop task, and
\* suspends in the await of a pending task; a task that has ended with an
\* exception makes the await raise, which ends the _stop task at line 86.
sim_stop(id) ==
    /\ id \in 1..Len(sims)
    /\ sims[id].stop = "new"
    /\ sims' = [sims EXCEPT ![id] =
                   IF ~@.running
                   THEN [@ EXCEPT !.stop = "none"]
                   ELSE IF @.runner_task = "live"
                   THEN [@ EXCEPT !.running = FALSE, !.runner_task = "cancelled",
                                  !.stop = "awaiting"]
                   ELSE [@ EXCEPT !.running = FALSE, !.stop = "none"]]
    /\ UNCHANGED <<instances, settings, closing, deleted, closes, resp, reg_lock>>
    /\ UNCHANGED outside_registry

\* The suspended _stop task of a created instance resumes once the loop task
\* is done, and clears the handle: line 89.
sim_stop_resume(id) ==
    /\ id \in 1..Len(sims)
    /\ sims[id].stop = "awaiting"
    /\ sims[id].runner_task = "done"
    /\ sims' = [sims EXCEPT ![id].runner_task = "none", ![id].stop = "none"]
    /\ UNCHANGED <<instances, settings, closing, deleted, closes, resp, reg_lock>>
    /\ UNCHANGED outside_registry

\* One run of the _run task of a created instance, lines 93-105, from where it
\* resumed to its next sleep or to its end: a task that was cancelled, or that
\* finds _running False, ends; another one ticks.  MaxTick bounds the ticks of
\* the model, not those of the code.
sim_run(id) ==
    /\ id \in 1..Len(sims)
    /\ sims[id].runner_task \in {"live", "cancelled"}
    /\ IF sims[id].runner_task = "cancelled" \/ ~sims[id].running
       THEN sims' = [sims EXCEPT ![id].runner_task = "done"]
       ELSE /\ sims[id].tick < MaxTick
            /\ sims' = [sims EXCEPT ![id].tick = inc_tick(@)]
    /\ UNCHANGED <<instances, settings, closing, deleted, closes, resp, reg_lock>>
    /\ UNCHANGED outside_registry

\* A run of the _run task of a created instance in which model.step() raises
\* an unexpected exception at line 95: the exception ends the task (line 104
\* catches CancelledError only) and _running is left as it was.
sim_run_raises(id) ==
    /\ id \in 1..Len(sims)
    /\ sims[id].runner_task = "live"
    /\ sims[id].running
    /\ sims' = [sims EXCEPT ![id].runner_task = "failed"]
    /\ UNCHANGED <<instances, settings, closing, deleted, closes, resp, reg_lock>>
    /\ UNCHANGED outside_registry

\* SimulationManager.delete with the id of a created instance, or with an id
\* that is not in the dict, up to its return or to the suspension of the
\* close() it awaits (line 152).  The _stop() of close() returns at line 81
\* when the instance is not running, and delete returns True without
\* suspending; of a running instance it clears _running, cancels the loop task
\* and awaits it (line 86); when that task has ended with an exception the
\* await raises it at once, and close() and delete() raise it too.
delete_begin(id) ==
    /\ reg_lock = 0
    /\ IF id \in instances
       THEN /\ instances' = pop(instances, id)
            /\ closes' = [closes EXCEPT ![id] = @ + 1]
            /\ IF ~sims[id].running
               THEN /\ deleted' = [deleted EXCEPT ![id] = @ + 1]
                    /\ resp' = [op |-> "delete", id |-> id, status |-> "true"]
                    /\ UNCHANGED <<closing, reg_lock, sims>>
               ELSE IF sims[id].runner_task = "failed"
               THEN /\ sims' = [sims EXCEPT ![id].running = FALSE]
                    /\ resp' = [op |-> "delete", id |-> id, status |-> "raised"]
                    /\ UNCHANGED <<closing, deleted, reg_lock>>
               ELSE /\ sims' = [sims EXCEPT ![id].running = FALSE,
                                            ![id].runner_task = "cancelled"]
                    /\ closing' = [closing EXCEPT ![id] = @ + 1]
                    /\ reg_lock' = registry_lock_after_pop(id)
                    /\ resp' = [op |-> "delete", id |-> id, status |-> "closing"]
                    /\ UNCHANGED deleted
       ELSE /\ resp' = [op |-> "delete", id |-> id, status |-> "false"]
            /\ UNCHANGED <<instances, closes, closing, deleted, reg_lock, sims>>
    /\ UNCHANGED settings
    /\ UNCHANGED outside_registry

\* SimulationManager.delete of a created instance, lines 152-153: the loop
\* task is done, the _stop() of close() resumes and clears the handle (line
\* 89), close() puts the shutdown marker on the queue of the handler and
\* clears the set, and delete returns True.
delete_return(id) ==
    /\ closing[id] > 0
    /\ id \in 1..Len(sims)
    /\ sims[id].runner_task = "done"
    /\ sims' = [sims EXCEPT ![id].runner_task = "none"]
    /\ closing' = [closing EXCEPT ![id] = @ - 1]
    /\ deleted' = [deleted EXCEPT ![id] = @ + 1]
    /\ reg_lock' = 0
    /\ resp' = [op |-> "delete", id |-> id, status |-> "true"]
    /\ UNCHANGED <<instances, settings, closes>>
    /\ UNCHANGED outside_registry

\* How a delete() that has called close() stands: suspended in the await of
\* close(), returned True (line 153), or left by the exception of close().
delete_status(pc) ==
    IF pc = "awaiting" THEN "closing" ELSE IF pc = "done" THEN "true" ELSE "raised"

\* SimulationManager.delete with the id of the instance of the first part, up
\* to its return or to the suspension of the close() it awaits (line 152).
delete_instance ==
    /\ reg_lock = 0
    /\ IF registered
       THEN /\ delete_steps
            /\ closes' = [closes EXCEPT ![instance_id] = @ + 1]
            /\ closing' = [closing EXCEPT ![instance_id] =
                               IF close_pc' = "awaiting" THEN @ + 1 ELSE @]
            /\ deleted' = [deleted EXCEPT ![instance_id] =
                               IF close_pc' = "done" THEN @ + 1 ELSE @]
            /\ reg_lock' = IF close_pc' = "awaiting"
                           THEN registry_lock_after_pop(instance_id)
                           ELSE 0
            /\ resp' = [op |-> "delete", id |-> instance_id,
                        status |-> delete_status(close_pc')]
       ELSE /\ resp' = [op |-> "delete", id |-> instance_id, status |-> "false"]
            /\ UNCHANGED <<inst_vars, closes, closing, deleted, reg_lock>>
    /\ UNCHANGED <<instances, settings, sims>>
    /\ UNCHANGED <<flock_vars, lock_vars, stream_vars>>

\* SimulationManager.delete, lines 152-153: the close() it awaits resumes and
\* returns, and delete returns True; or close() raises, and so does delete.
delete_instance_return ==
    /\ closing[instance_id] > 0
    /\ close_resume_steps
    /\ closing' = [closing EXCEPT ![instance_id] = @ - 1]
    /\ deleted' = [deleted EXCEPT ![instance_id] =
                       IF close_pc' = "done" THEN @ + 1 ELSE @]
    /\ reg_lock' = 0
    /\ resp' = [op |-> "delete", id |-> instance_id,
                status |-> delete_status(close_pc')]
    /\ UNCHANGED <<instances, settings, closes, sims>>
    /\ UNCHANGED <<flock_vars, lock_vars, stream_vars>>

\* The ids a caller passes: one it was given by a create, the id of the
\* instance of the first part, or 0.
CallIds == 0..Len(settings) \cup {instance_id}

\* Every call on the registry while no handler of simulation_stream is open:
\* no instance is running, and no delete suspends.
RegNext ==
    \/ \E req \in Requests : create_simulation(req)
    \/ \E id \in CallIds : get(id)
    \/ list_simulations
    \/ \E id \in 0..Len(settings) : delete_begin(id)
    \/ delete_instance

RegSpec == Init /\ [][RegNext]_vars

\* BaseSwarmModel.step, the first call on a model.
flock_step ==
    /\ flock_ticks = 0
    /\ flock_prev' = flock
    /\ flock' = swarm_step(flock, flock_table, flock_mode)
    /\ flock_table' = table_reset(update_agent_distance_table(flock_table, flock))
    /\ flock_ticks' = flock_ticks + 1
    /\ UNCHANGED flock_mode
    /\ UNCHANGED outside_flock

FlockNext == flock_step

FlockSpec == FlockInit /\ [][FlockNext]_vars

\* ---- _run statement by statement

\* The holder of the lock once the `async with` block of lines 94-101 is left:
\* the block ends before the broadcast.  (lock_kept: the broadcast and the sleep
\* are inside the block.)
lock_kept(r) == r
lock_after_block(r) == 0

\* A caller between two runs of tasks: register(), as in register above.
loop_register ==
    /\ cpu = 0
    /\ n_chans < MaxChan
    /\ tick < MaxTick
    /\ n_chans' = n_chans + 1
    /\ subscribers' = subscribers \cup {n_chans + 1}
    /\ IF needs_start /\ ~start_blocked
       THEN /\ running' = TRUE
            /\ runner_task' = new_task
            /\ task_state' = [task_state EXCEPT ![new_task] = "new"]
       ELSE UNCHANGED <<running, runner_task, task_state>>
    /\ UNCHANGED <<tick, agents, task_cancel, queues, stop_new, stop_wait, close_pc,
                   close_wait, registered, snaps>>
    /\ UNCHANGED <<lock_vars, outside_loop_steps>>

\* A caller between two runs of tasks: snapshot().  It takes the lock, reads and
\* releases it without suspending; with the lock held it would wait.
loop_snapshot ==
    /\ cpu = 0
    /\ lock = 0
    /\ snaps' = (IF Len(snaps) < 2 THEN snaps ELSE Tail(snaps))
                    \o <<[tick |-> tick, agents |-> agents]>>
    /\ UNCHANGED <<tick, agents, subscribers, running, runner_task, task_state,
                   task_cancel, n_chans, queues, stop_new, stop_wait, close_pc,
                   close_wait, registered>>
    /\ UNCHANGED <<lock_vars, outside_loop_steps>>

\* The event loop resumes the task, at its start or after its sleep: a pending
\* cancel() raises CancelledError there and the task ends (line 104).
run_resume(r) ==
    /\ cpu = 0
    /\ live(r)
    /\ IF task_cancel[r]
       THEN /\ task_state' = [task_state EXCEPT ![r] = "done"]
            /\ task_cancel' = [task_cancel EXCEPT ![r] = FALSE]
            /\ UNCHANGED <<cpu, run_pc>>
       ELSE /\ cpu' = r
            /\ run_pc' = "test"
            /\ UNCHANGED <<task_state, task_cancel>>
    /\ UNCHANGED <<lock, tick, agents, subscribers, running, runner_task, n_chans,
                   queues, stop_new, stop_wait, close_pc, close_wait, registered,
                   snaps>>
    /\ UNCHANGED outside_loop_steps

\* Line 93, then line 94 when the test holds: the lock is taken when it is
\* free.  When the test fails the task returns.
run_test(r) ==
    /\ cpu = r
    /\ run_pc = "test"
    /\ IF running
       THEN /\ lock = 0
            /\ tick < MaxTick
            /\ lock' = r
            /\ run_pc' = "locked"
            /\ UNCHANGED <<cpu, task_state>>
       ELSE /\ task_state' = [task_state EXCEPT ![r] = "done"]
            /\ cpu' = 0
            /\ run_pc' = "idle"
            /\ UNCHANGED lock
    /\ UNCHANGED <<tick, agents, subscribers, running, runner_task, task_cancel,
                   n_chans, queues, stop_new, stop_wait, close_pc, close_wait,
                   registered, snaps>>
    /\ UNCHANGED outside_loop_steps

\* Lines 95-101: the step, the tick counter and the payload, then the end of
\* the `async with` block.
run_locked(r) ==
    /\ cpu = r
    /\ run_pc = "locked"
    /\ agents' = step(agents)
    /\ tick' = inc_tick(tick)
    /\ lock' = lock_after_block(r)
    /\ run_pc' = "broadcast"
    /\ UNCHANGED <<cpu, subscribers, running, runner_task, task_state, task_cancel,
                   n_chans, queues, stop_new, stop_wait, close_pc, close_wait,
                   registered, snaps>>
    /\ UNCHANGED outside_loop_steps

\* Lines 102-103: the broadcast, which does not suspend, then the sleep, which
\* does.
run_broadcast(r) ==
    /\ cpu = r
    /\ run_pc = "broadcast"
    /\ queues' = broadcast(queues, subscribers, tick_payload(tick, agents))
    /\ task_state' = [task_state EXCEPT ![r] = "sleeping"]
    /\ cpu' = 0
    /\ run_pc' = "idle"
    /\ UNCHANGED <<lock, tick, agents, subscribers, running, runner_task,
                   task_cancel, n_chans, stop_new, stop_wait, close_pc, close_wait,
                   registered, snaps>>
    /\ UNCHANGED outside_loop_steps

\* The instance with its loop statement by statement: callers and _stop tasks
\* run between two runs of a loop task.
LoopNext ==
    \/ loop_register
    \/ loop_snapshot
    \/ cpu = 0 /\ \E q \in 1..n_chans : unregister(q)
    \/ cpu = 0 /\ stop_begin
    \/ cpu = 0 /\ \E r \in TaskIds : stop_resume(r)
    \/ \E r \in TaskIds : run_resume(r)
    \/ \E r \in TaskIds : run_test(r)
    \/ \E r \in TaskIds : run_locked(r)
    \/ \E r \in TaskIds : run_broadcast(r)

LoopSpec == Init /\ [][LoopNext]_vars

\* The create request of the registry when its instances stand next to a
\* ticking one: the smallest accepted request.
LockRequests ==
    {req \in Requests : /\ req.num_agents = num_agents_ge
                        /\ req.mode = "swarm"
                        /\ req.timestep = 1
                        /\ req.update_interval = 1}

\* The ids simulation_stream is called with when the instances stand next to
\* a ticking one: that of the first created instance.
StreamIds == {1}

\* The registry with the instances it holds.  A handler of simulation_stream
\* is opened on the first created instance: it ticks run by run, its handler
\* may leave, and its delete suspends in close() until the loop task is done;
\* a tick of it may fail.  The instance of the first part ticks statement by
\* statement once its handler, the only one opened on it, has registered; the
\* handler may leave; the instance is not deleted.
\* A call on the registry, a handler and the loop task of a created instance
\* are tasks of the same event loop: they run between two runs of the loop
\* task of the instance of the first part.
RegLoopNext ==
    \/ cpu = 0 /\ \E req \in LockRequests : create_simulation(req)
    \/ cpu = 0 /\ \E id \in CallIds : get(id)
    \/ cpu = 0 /\ list_simulations
    \/ cpu = 0 /\ \E id \in 0..Len(settings) : delete_begin(id)
    \/ cpu = 0 /\ \E id \in 1..Len(settings) : delete_return(id)
    \/ cpu = 0 /\ \E id \in StreamIds : stream_get(id)
    \/ cpu = 0 /\ \E id \in 1..Len(settings) : stream_register(id)
    \/ cpu = 0 /\ \E id \in 1..Len(settings) : sim_run(id)
    \/ cpu = 0 /\ \E id \in 1..Len(settings) : sim_run_raises(id)
    \/ cpu = 0 /\ \E id \in 1..Len(settings) : stream_unregister(id)
    \/ cpu = 0 /\ \E id \in 1..Len(settings) : sim_stop(id)
    \/ cpu = 0 /\ \E id \in 1..Len(settings) : sim_stop_resume(id)
    \/ n_chans = 0 /\ loop_register
    \/ cpu = 0 /\ \E q \in 1..n_chans : unregister(q)
    \/ cpu = 0 /\ stop_begin
    \/ cpu = 0 /\ \E r \in TaskIds : stop_resume(r)
    \/ \E r \in TaskIds : run_resume(r)
    \/ \E r \in TaskIds : run_test(r)
    \/ \E r \in TaskIds : run_locked(r)
    \/ \E r \in TaskIds : run_broadcast(r)

RegLoopSpec == Init /\ [][RegLoopNext]_vars

\* One run of a _run task, as run above, with the model of the instance agent
\* by agent: the tick calls step() of the flock engine.  The model takes the
\* first tick of an instance only.
model_run(r) ==
    /\ live(r)
    /\ IF task_cancel[r] \/ ~running
       THEN /\ task_state' = [task_state EXCEPT ![r] = "done"]
            /\ task_cancel' = [task_cancel EXCEPT ![r] = FALSE]
            /\ UNCHANGED <<tick, agents, queues, flock_vars>>
       ELSE /\ tick < MaxTick
            /\ flock_ticks = 0
            /\ flock_prev' = flock
            /\ flock' = swarm_step(flock, flock_table, flock_mode)
            /\ flock_table' = table_reset(update_agent_distance_table(flock_table, flock))
            /\ flock_ticks' = flock_ticks + 1
            /\ agents' = step(agents)
            /\ tick' = inc_tick(tick)
            /\ queues' = broadcast(queues, subscribers, tick_payload(tick', agents'))
            /\ task_state' = [task_state EXCEPT ![r] = "sleeping"]
            /\ UNCHANGED <<task_cancel, flock_mode>>
    /\ UNCHANGED <<subscribers, running, runner_task, n_chans, stop_new, stop_wait,
                   close_pc, close_wait, registered, snaps>>
    /\ UNCHANGED <<reg_vars, lock_vars, stream_vars>>

\* The tick loop among the readers and the administrative calls: snapshot,
\* register and unregister on the instance, with the _stop tasks unregister
\* creates, and get and list on the registry, which holds the instance.
WriterNext ==
    \/ snapshot
    \/ register
    \/ \E q \in 1..n_chans : unregister(q)
    \/ stop_begin
    \/ \E r \in TaskIds : stop_resume(r)
    \/ \E r \in TaskIds : model_run(r)
    \/ \E id \in CallIds : get(id)
    \/ list_simulations

WriterSpec == WriterInit /\ [][WriterNext]_vars

\* simulation_stream, main.py lines 116-118, on an instance it got from the
\* registry: register(), as in register above, then snapshot(); neither
\* suspends, so no task runs between the two.  The bounds are those of
\* register.
stream_open ==
    /\ n_chans < MaxChan
    /\ tick < MaxTick
    /\ n_chans' = n_chans + 1
    /\ subscribers' = subscribers \cup {n_chans + 1}
    /\ IF needs_start /\ ~start_blocked
       THEN /\ running' = TRUE
            /\ runner_task' = new_task
            /\ task_state' = [task_state EXCEPT ![new_task] = "new"]
       ELSE UNCHANGED <<running, runner_task, task_state>>
    /\ baseline' = [baseline EXCEPT ![n_chans + 1] = snapshot_tick(tick)]
    /\ UNCHANGED <<tick, agents, task_cancel, queues, stop_new, stop_wait, close_pc,
                   close_wait, registered, snaps>>
    /\ UNCHANGED <<reg_vars, flock_vars, lock_vars>>

\* simulation_stream, main.py lines 129-132: the handler of queue q leaves its
\* loop (a shutdown marker, or its peer is gone) and calls unregister(q), as in
\* unregister above, once; then it returns.
stream_close(q) ==
    /\ baseline[q] # -1
    /\ baseline' = [baseline EXCEPT ![q] = -1]
    /\ subscribers' = subscribers \ {q}
    /\ queues' = [queues EXCEPT ![q] = <<>>]
    /\ IF stop_needed(subscribers')
       THEN stop_new < MaxStops /\ stop_new' = stop_new + 1
       ELSE stop_new' = stop_new
    /\ UNCHANGED <<tick, agents, running, runner_task, task_state, task_cancel,
                   n_chans, stop_wait, close_pc, close_wait, registered,
                   snaps>>
    /\ UNCHANGED <<reg_vars, flock_vars, lock_vars>>

\* The instance with the handlers of simulation_stream as its only callers,
\* and delete.
StreamNext ==
    \/ stream_open
    \/ \E q \in 1..n_chans : stream_close(q)
    \/ stop_begin
    \/ \E r \in TaskIds : stop_resume(r)
    \/ \E r \in TaskIds : run(r)
    \/ delete
    \/ close_resume

StreamSpec == Init /\ [][StreamNext]_vars

\* Every operation that changes the instance.
Step ==
    \/ register
    \/ \E q \in 1..n_chans : unregister(q)
    \/ stop_begin
    \/ \E r \in TaskIds : stop_resume(r)
    \/ \E r \in TaskIds : run(r)
    \/ delete
    \/ close_resume

Next == snapshot \/ Step

Spec == Init /\ [][Next]_vars

\* The event loop runs every ready task: a _run task whose sleep ended or that
\* was cancelled, a created _stop task, and a _stop or close() whose awaited task
\* is done.  Calls from outside (register, unregister, snapshot, delete) may
\* never come.
Fairness ==
    /\ \A r \in TaskIds : WF_vars(run(r))
    /\ \A r \in TaskIds : WF_vars(stop_resume(r))
    /\ WF_vars(stop_begin)
    /\ WF_vars(close_resume)

\* The instance without its reader: snapshot writes `snaps` alone, which no
\* action reads.
LiveSpec == Init /\ [][Step]_vars /\ Fairness

\* unregister called with a queue that is not in the subscriber set: one that
\* left it before, or one this instance never returned (0).  Lines 68-71 run
\* the same way for it: discard() removes nothing, the emptiness test follows.
unregister_absent == \E q \in (0..n_chans) \ subscribers : unregister(q)

\* The instance when no subscriber ever leaves and nobody deletes it: the only
\* unregister calls are those with a queue that is not in the set.
AbsentNext ==
    \/ register
    \/ unregister_absent
    \/ stop_begin
    \/ \E r \in TaskIds : stop_resume(r)
    \/ \E r \in TaskIds : run(r)

AbsentSpec == Init /\ [][AbsentNext]_vars

\* The instance when a tick may fail with an unexpected exception.
FaultNext == Next \/ \E r \in TaskIds : run_raises(r)

FaultSpec == Init /\ [][FaultNext]_vars

\* The registry with the instances it holds when a tick may fail with an
\* unexpected exception: the first created instance with its handler and its
\* loop, and the instance of the first part with its only handler and its
\* loop run by run; every instance may be deleted.
RegFaultNext ==
    \/ \E req \in LockRequests : create_simulation(req)
    \/ \E id \in CallIds : get(id)
    \/ list_simulations
    \/ \E id \in 0..Len(settings) : delete_begin(id)
    \/ \E id \in 1..Len(settings) : delete_return(id)
    \/ \E id \in StreamIds : stream_get(id)
    \/ \E id \in 1..Len(settings) : stream_register(id)
    \/ \E id \in 1..Len(settings) : sim_run(id)
    \/ \E id \in 1..Len(settings) : sim_run_raises(id)
    \/ \E id \in 1..Len(settings) : stream_unregister(id)
    \/ \E id \in 1..Len(settings) : sim_stop(id)
    \/ \E id \in 1..Len(settings) : sim_stop_resume(id)
    \/ delete_instance
    \/ delete_instance_return
    \/ n_chans = 0 /\ register
    \/ \E q \in 1..n_chans : unregister(q)
    \/ stop_begin
    \/ \E r \in TaskIds : stop_resume(r)
    \/ \E r \in TaskIds : run(r)
    \/ \E r \in TaskIds : run_raises(r)

RegFaultSpec == Init /\ [][RegFaultNext]_vars

\* ------------------------------------------------------------------ claims

\* The _run tasks that were created and have not exited.
ActiveLoops == {r \in TaskIds : live(r)}

\* The _run tasks that have started (run at least once) and have not exited.
StartedLoops == {r \in TaskIds : task_state[r] = "sleeping"}

NoActiveLoop == ActiveLoops = {}

\* No _stop is waiting to run or suspended in its await.
NoStopInFlight ==
    /\ stop_new = 0
    /\ \A r \in TaskIds : stop_wait[r] = 0
    /\ close_pc # "awaiting"

\* Queue q holds a tick payload.
HasTick(q) == \E k \in 1..Len(queues[q]) : queues[q][k].type = "tick"

\* A register() call returns in this step.
RegisterReturns == n_chans' = n_chans + 1

\* C1: at most one tick-loop task is started and not yet exited at any time.
C1_AtMostOneLoop == Cardinality(StartedLoops) <= 1

\* C2: when register() returns on an instance that has not been closed, the
\* running flag is set and a tick-loop task that has not been cancelled is active.
C2_RegisterEnsuresRunning ==
    [][(RegisterReturns /\ close_pc' = "none")
        => (running' /\ \E r \in TaskIds : live(r)' /\ ~task_cancel'[r])]_vars

\* C3: a non-closed instance is never quiescent (no active loop, no stop in
\* flight) with a non-empty subscriber set.
C3_NeverQuiescentWithSubscribers ==
    ~(close_pc = "none" /\ subscribers # {} /\ NoActiveLoop /\ NoStopInFlight)

\* IDLE: not closed, no subscribers, no loop, no stop in flight.
Idle == close_pc = "none" /\ subscribers = {} /\ NoActiveLoop /\ NoStopInFlight

\* The loop is on: the flag is set, an uncancelled loop task is active and no
\* _stop task is waiting to run.
LoopOn ==
    /\ running
    /\ stop_new = 0
    /\ \E r \in TaskIds : live(r) /\ ~task_cancel[r]

\* A registered queue has not received a tick payload yet.
Starved == \E q \in subscribers : ~HasTick(q)

\* C4: registering on an IDLE instance starts the tick loop (the flag is set and
\* the handle names a new, uncancelled task), and from a state where the loop is
\* on, every registered queue that has no tick payload yet receives one or leaves
\* the subscriber set.
C4_FirstRegisterStartsLoop ==
    /\ [][(Idle /\ RegisterReturns)
           => (/\ running'
               /\ runner_task' # 0
               /\ task_state'[runner_task'] = "new"
               /\ ~task_cancel'[runner_task']
               /\ LoopOn')]_vars
    /\ ((LoopOn /\ Starved) ~> ~Starved)

\* C4 witness: the first queue, registered on the IDLE instance, holds a tick.
C4_Witness == n_chans = 1 /\ 1 \in subscribers /\ HasTick(1) /\ close_pc = "none"

\* Every queue is as it was, was released, or got the shutdown marker.
NoTickPut ==
    \A q \in Chans :
        \/ queues'[q] = queues[q]
        \/ queues'[q] = <<>>
        \/ queues'[q] = Append(queues[q], shutdown_payload)

\* C5: after unregister() removed the last subscriber (the set is empty on an
\* instance that is not closed), either a register() follows (the set is
\* non-empty again) or every loop task exits; and as long as no loop task is
\* active and no register() is called, none becomes active, the tick counter
\* does not change and no tick payload is put on any queue.
C5_LastUnregisterQuiesces ==
    /\ ((subscribers = {} /\ n_chans > 0 /\ close_pc = "none")
            ~> (NoActiveLoop \/ subscribers # {}))
    /\ [][(NoActiveLoop /\ ~RegisterReturns)
           => (NoActiveLoop' /\ tick' = tick /\ agents' = agents /\ NoTickPut)]_vars

\* C5 witness: a loop ticked, the last subscriber unregistered, every loop exited.
C5_Witness ==
    /\ subscribers = {} /\ n_chans > 0 /\ close_pc = "none"
    /\ NoActiveLoop /\ NoStopInFlight
    /\ tick > 0

\* C6: on every queue each tick payload that follows a tick payload has a tick
\* number exactly one greater.
C6_ConsecutiveTicks ==
    \A q \in Chans : \A k \in 1..(Len(queues[q]) - 1) :
        (queues[q][k].type = "tick" /\ queues[q][k + 1].type = "tick")
            => queues[q][k + 1].tick = queues[q][k].tick + 1

\* C6 witness: a queue holds two tick payloads while two loops are started.
C6_Witness ==
    /\ Cardinality(StartedLoops) = 2
    /\ \E q \in subscribers :
           /\ Len(queues[q]) >= 2
           /\ queues[q][1].type = "tick"
           /\ queues[q][2].type = "tick"

\* On every queue the shutdown marker, if any, is the last payload.
ShutdownIsLast ==
    \A q \in Chans : \A k \in 1..Len(queues[q]) :
        queues[q][k].type = "shutdown" => k = Len(queues[q])

\* close() returns in this step.
CloseReturns == close_pc # "done" /\ close_pc' = "done"

\* C7: when close() sends the shutdown markers every tick loop has been stopped
\* (no loop task is active without a cancel() pending on it), every queue of the
\* subscriber set gets the marker once and the set is emptied; and no payload ever
\* follows a shutdown marker.
C7_DeleteStopsThenShutsDown ==
    /\ [][CloseReturns
           => (/\ \A r \in ActiveLoops : task_cancel[r]
               /\ \A q \in subscribers :
                      queues'[q] = Append(queues[q], shutdown_payload)
               /\ subscribers' = {})]_vars
    /\ []ShutdownIsLast

\* C8: once close() has completed no tick loop is active and the tick counter
\* and the agents never change.
C8_ClosedIsTerminal ==
    [][close_pc = "done"
        => (NoActiveLoop' /\ tick' = tick /\ agents' = agents)]_vars

\* C9: every snapshot holds the agents after exactly `tick` complete updates.
C9_SnapshotConsistent ==
    \A k \in 1..Len(snaps) : \A i \in Agents : snaps[k].agents[i] = snaps[k].tick

\* C9 witness: a snapshot taken after a loop was cancelled in its sleep, with
\* ticks applied.
C9_Witness ==
    /\ snaps # <<>>
    /\ snaps[Len(snaps)].tick = tick
    /\ tick >= 1
    /\ \E r \in TaskIds : done(r)
    /\ NoActiveLoop

\* C10: the tick counter starts at 0, each step leaves it and the agents
\* unchanged or adds one to it and updates every agent once, and a snapshot
\* never returns a smaller tick than the one before it.
C10_TickMonotone ==
    /\ tick = 0
    /\ [][/\ tick' \in {tick, tick + 1}
          /\ (tick' = tick) => (agents' = agents)
          /\ (tick' = tick + 1) => (\A i \in Agents : agents'[i] = agents[i] + 1)
          /\ (snaps # <<>> /\ snaps' # snaps)
                => snaps'[Len(snaps')].tick >= snaps[Len(snaps)].tick]_vars

\* C10 witness: two snapshots in sequence with different ticks.
C10_Witness == Len(snaps) = 2 /\ snaps[1].tick < snaps[2].tick


\* C11: unregister with a channel that is not in the subscriber set is a no-op:
\* it does not stop or disturb the loop that serves the remaining or the
\* later-registered subscribers.  When those are the only unregister calls, a
\* registered subscriber always has the instance running with a loop that is
\* not being cancelled.
C11_AbsentUnregisterIsNoOp ==
    subscribers # {} => running /\ \E r \in ActiveLoops : ~task_cancel[r]


\* C12: a subscriber that never consumes blocks neither the loop nor the other
\* subscribers: every tick is appended to the queue of every registered
\* subscriber whatever that queue already holds, and while the loop is on with a
\* subscriber registered the tick counter keeps advancing until it reaches the
\* bound of the model, unless the loop is turned off or the subscribers leave.
\* No queue of the model is ever consumed.
C12_SlowSubscriberBlocksNobody ==
    /\ [][(tick' # tick)
           => \A q \in subscribers :
                  queues'[q] = Append(queues[q], tick_payload(tick', agents'))]_vars
    /\ (LoopOn /\ subscribers # {} /\ tick < MaxTick)
           ~> (tick = MaxTick \/ ~LoopOn \/ subscribers = {})

\* C12 witness: two registered queues each hold every tick, none was consumed.
C12_Witness ==
    /\ tick = MaxTick
    /\ \E q1, q2 \in subscribers :
           /\ q1 # q2
           /\ Len(queues[q1]) = MaxTick
           /\ Len(queues[q2]) >= 1
           /\ queues[q1][MaxTick].type = "tick"
           /\ queues[q2][Len(queues[q2])].type = "tick"


\* C13: when an unexpected exception is raised inside a tick the instance stops
\* its loop and is marked unusable: from then on it is not reported as running
\* and keeps no subscriber waiting; the state it shows is a consistent one (every
\* agent was updated once per tick).
C13_FailedTickStopsInstance ==
    (\E r \in TaskIds : failed(r))
        => (/\ ~running
            /\ subscribers = {}
            /\ \A i \in Agents : agents[i] = tick)


\* C14: for any interleaving of delete calls, delete returns true for exactly
\* one call per id that is in the registry (at most one call ever holds the
\* popped instance, and that call returns true once its close() is over) and
\* false for every other call, the never-created id included; close() is run
\* exactly once on a removed instance; a delete that returns false leaves the
\* registry as it was; get answers not-found once the id is removed.
C14_DeleteOncePerId ==
    /\ \A id \in SimIds :
           /\ closing[id] + deleted[id] <= 1
           /\ closes[id] = closing[id] + deleted[id]
           /\ in_dict(id) = (/\ id \in 1..Len(settings) \cup {instance_id}
                             /\ closes[id] = 0)
    /\ resp.op = "delete" /\ resp.status = "false" => ~in_dict(resp.id)
    /\ resp.op = "get" /\ closes[resp.id] > 0 => resp.status = "not_found"

\* C15: a create request with an agent count outside 1..500, a timestep or an
\* update interval that is not positive, or a mode that is not supported is
\* answered with the invalid-configuration error and constructs no instance;
\* every instance that was constructed has settings inside those limits.
C15_InvalidCreateRejected ==
    /\ \A id \in 1..Len(settings) :
           /\ settings[id].num_agents \in 1..500
           /\ settings[id].timestep > 0
           /\ settings[id].update_interval > 0
           /\ settings[id].mode \in {"swarm", "torus", "hpp", "dpp"}
    /\ resp.op = "create"
           => (resp.status = "invalid")
                  = (\/ resp.req.num_agents < 1
                     \/ resp.req.num_agents > 500
                     \/ resp.req.timestep <= 0
                     \/ resp.req.update_interval <= 0
                     \/ resp.req.mode \notin {"swarm", "torus", "hpp", "dpp"})
    /\ resp.op = "create" /\ resp.status = "created"
           => resp.id = Len(settings) /\ settings[resp.id] = resp.req

\* C15 witness: a request for 501 agents was rejected after one was accepted.
C15_Witness ==
    /\ Len(settings) = 1
    /\ resp.op = "create"
    /\ resp.status = "invalid"
    /\ resp.req.num_agents = 501
    /\ resp.req.timestep = 1 /\ resp.req.update_interval = 1
    /\ resp.req.mode = "swarm"


\* ---- the flock engine: what one step() made of the agents it started from

TickDone == flock_ticks = 1

\* The zone radii of the model, in tenths, and the distance of two agents before
\* the tick.
Radii == zones(flock_mode)
Apart(i, j) == Abs(flock_prev[j].pos.x - flock_prev[i].pos.x)

\* The other agents within zor of i, and within zoa of i, before the tick.
Near(i) == {j \in Fish \ {i} : 10 * Apart(i, j) <= Radii.zor}
InReach(i) == {j \in Fish \ {i} : 10 * Apart(i, j) <= Radii.zoa}

\* The negated sum of the unit vectors from i toward the agents of Near(i): on
\* the x axis, the number of them at a smaller x minus the number at a larger x.
Push(i) ==
    Cardinality({j \in Near(i) : flock_prev[j].pos.x < flock_prev[i].pos.x})
        - Cardinality({j \in Near(i) : flock_prev[j].pos.x > flock_prev[i].pos.x})

\* Two arrays are the same real vector, whatever the width they are stored in.
SameVector(a, b) == a.num = b.num /\ a.den2 = b.den2

IsUnit(a) == a.num[1] * a.num[1] + a.num[2] * a.num[2] = a.den2

\* C16: an agent with another agent within zor gets a heading that depends on
\* the agents within zor only: the normalised negated sum of the unit vectors
\* toward them (its own heading when that sum is zero), wherever the agents
\* beyond zor are and whatever their headings.
C16_RepulsionDominance ==
    TickDone =>
        \A i \in Fish :
            Near(i) # {} =>
                SameVector(flock[i].velocity_unit_vector,
                           IF Push(i) = 0
                           THEN flock_prev[i].velocity_unit_vector
                           ELSE unit_vector(<<Push(i), 0>>, "f32"))

\* C16 witness: an agent was pushed away from a neighbour within zor while a
\* third agent stood beyond zor and within zoa of it, heading elsewhere.
C16_Witness ==
    /\ TickDone
    /\ \E i \in Fish : \E k \in InReach(i) \ Near(i) :
           /\ Near(i) # {}
           /\ Push(i) # 0
           /\ ~SameVector(flock_prev[k].velocity_unit_vector,
                          flock[i].velocity_unit_vector)

\* C17: after a tick the heading of every agent is the accumulated direction
\* normalised to unit length or, when the accumulated direction is the zero
\* vector, exactly the heading the agent had before the tick.
C17_UnitOrUnchanged ==
    TickDone =>
        \A i \in Fish :
            LET d == accumulated(flock_prev,
                                 update_agent_distance_table(inf_table, flock_prev),
                                 Radii, i)
            IN  IF d = <<0, 0>>
                THEN flock[i].velocity_unit_vector = flock_prev[i].velocity_unit_vector
                ELSE /\ IsUnit(flock[i].velocity_unit_vector)
                     /\ SameVector(flock[i].velocity_unit_vector, unit_vector(d, "f32"))

\* C18: an agent that is not in repulsion mode and has a single agent j within
\* zoa, in its orientation zone, gets the direction of the heading j had before
\* the tick.
C18_SingleOrientationNeighbour ==
    TickDone =>
        \A i \in Fish : \A j \in Fish \ {i} :
            (Near(i) = {} /\ InReach(i) = {j} /\ 10 * Apart(i, j) <= Radii.zoo)
                => SameVector(flock[i].velocity_unit_vector,
                              flock_prev[j].velocity_unit_vector)

\* C18 witness: such an agent took a direction that was not its own from a
\* neighbour that is not aligned with the axis.
C18_Witness ==
    /\ TickDone
    /\ \E i \in Fish : \E j \in Fish \ {i} :
           /\ Near(i) = {} /\ InReach(i) = {j} /\ 10 * Apart(i, j) <= Radii.zoo
           /\ flock_prev[j].velocity_unit_vector.num = <<3, 4>>
           /\ flock_prev[i].velocity_unit_vector.num = <<-1, 0>>
           /\ flock[i].velocity_unit_vector.num = <<3, 4>>

\* The agents processed from the last to the first.
Backwards == [k \in Fish |-> FlockSize + 1 - k]

\* C19: the heading computation leaves the positions and the headings as they
\* are: the new heading of every agent is the one computed from the positions
\* and headings all agents had before the tick, its position is the old one
\* displaced along that heading, and the computed directions are the same
\* when the agents are processed in the opposite order.
C19_HeadingsFromPreTickState ==
    TickDone =>
        LET tbl == update_agent_distance_table(inf_table, flock_prev)
        IN  /\ \A i \in Fish :
                   LET h == step_direction(flock_prev[i],
                                           new_direction(flock_prev, tbl, Radii, i))
                   IN  /\ flock[i].velocity_unit_vector = h
                       /\ flock[i].pos = [x |-> flock_prev[i].pos.x, moved |-> h]
            /\ common_update_logic(Backwards, flock_prev, inf_table, flock_mode)
                   = common_update_logic(agent_order, flock_prev, inf_table,
                                         flock_mode)

\* C19 witness: agent 1 turned in the tick, and agent 2, processed after it,
\* oriented itself on the heading agent 1 had before.
C19_Witness ==
    /\ TickDone
    /\ ~SameVector(flock[1].velocity_unit_vector, flock_prev[1].velocity_unit_vector)
    /\ Near(2) = {} /\ InReach(2) = {1} /\ 10 * Apart(2, 1) <= Radii.zoo
    /\ SameVector(flock[2].velocity_unit_vector, flock_prev[1].velocity_unit_vector)
    /\ ~SameVector(flock[2].velocity_unit_vector, flock[1].velocity_unit_vector)


\* C20: the tick loop holds the lock of the instance only while it computes and
\* mutates: in every state in which a loop task is at its broadcast or is
\* sleeping it does not hold the lock, and whenever no task is running (the
\* only time a snapshot() can be issued) the lock is free.
C20_LockOnlyAroundStep ==
    /\ \A r \in TaskIds :
           (\/ cpu = r /\ run_pc = "broadcast"
            \/ cpu # r /\ task_state[r] = "sleeping")
               => lock # r
    /\ cpu = 0 => lock = 0

\* C20 witness: a loop task is at the broadcast of its second tick, not holding
\* the lock it held for the step, and a snapshot was taken while it slept.
C20_Witness ==
    /\ cpu # 0
    /\ run_pc = "broadcast"
    /\ lock = 0
    /\ tick = 2
    /\ Len(snaps) >= 1
    /\ snaps[Len(snaps)].tick = 1

\* C21: register() and unregister() change the subscriber set only while they
\* hold the lock of the instance, the one the tick loop takes for its step:
\* every step that changes the set is taken with the lock held.
C21_SubscribersUnderLock ==
    [][subscribers' # subscribers => lock # 0]_vars


\* A delete() is suspended in the close() it awaits.
CloseInFlight == \E id \in SimIds : closing[id] > 0

\* C22: the registry lock is not held while close() stops and awaits the loop
\* of a removed instance, nor while the loop of another instance holds that
\* instance's lock, so that no call on the registry waits for a loop and no
\* loop waits for the registry; the loop finds its own lock free whenever it
\* asks for it, a delete in flight or not; a call on the registry changes
\* nothing of the ticking instance, a step of its loop changes nothing of the
\* registry, and a step of a handler or of the loop of a created instance
\* changes neither the dict, nor what the calls in flight stand on, nor the
\* other instance.
C22_RegistryLockIndependent ==
    /\ [](CloseInFlight => reg_lock = 0)
    /\ [](lock # 0 => reg_lock = 0)
    /\ []((cpu # 0 /\ run_pc = "test") => lock = 0)
    /\ [][resp' # resp => UNCHANGED <<inst_vars, lock_vars>>]_vars
    /\ [][(cpu # 0 \/ cpu' # 0) => UNCHANGED reg_vars]_vars
    /\ [][(sims' # sims /\ resp' = resp)
             => UNCHANGED <<instances, settings, closing, deleted, closes,
                            reg_lock, inst_vars, lock_vars>>]_vars

\* C22 witness: the delete of the first created instance, which had ticked, is
\* suspended in the close() that awaits its loop; meanwhile the registry was
\* listed, and held the instance of the first part at tick 1 and the second
\* created instance, and the loop of the instance of the first part went on:
\* it holds its lock in its second tick.
C22_Witness ==
    /\ closing[1] = 1
    /\ sims[1].tick >= 1
    /\ sims[1].runner_task = "cancelled"
    /\ resp.op = "list"
    /\ Len(resp.items) = 2
    /\ resp.items[1].simulation_id = instance_id
    /\ resp.items[1].tick = 1
    /\ resp.items[2].simulation_id = 2
    /\ cpu # 0
    /\ lock = cpu
    /\ run_pc = "locked"
    /\ tick = 1


\* A step of snapshot(), register(), unregister(), of a _stop task or of a
\* call on the registry.
ReaderOrAdminCall ==
    \/ snaps' # snaps
    \/ n_chans' # n_chans
    \/ subscribers' # subscribers
    \/ stop_new' # stop_new
    \/ stop_wait' # stop_wait
    \/ resp' # resp

\* A step of a loop task that was not cancelled, on a running instance, to
\* its sleep: a tick.
LoopTick ==
    /\ ~ReaderOrAdminCall
    /\ running
    /\ \E r \in TaskIds :
           /\ live(r) /\ ~task_cancel[r]
           /\ task_state'[r] = "sleeping"
           /\ \A o \in TaskIds \ {r} : task_state'[o] = task_state[o]

\* C23: the tick counter, the update counters and the positions and headings
\* of the agents change in a tick of the loop only; snapshot(), register(),
\* unregister(), get() and list_simulations() leave them as they are; and a
\* tick adds one to the counter, updates every agent once and moves every
\* agent from its old position along its new heading.
C23_LoopIsOnlyWriter ==
    /\ [][(tick' # tick \/ agents' # agents \/ flock' # flock) => LoopTick]_vars
    /\ [][ReaderOrAdminCall => UNCHANGED <<tick, agents, flock>>]_vars
    /\ [][LoopTick =>
             /\ tick' = tick + 1
             /\ \A i \in Agents : agents'[i] = agents[i] + 1
             /\ \A i \in Fish :
                    /\ IsUnit(flock'[i].velocity_unit_vector)
                    /\ flock'[i].pos = [x |-> flock[i].pos.x,
                                        moved |-> flock'[i].velocity_unit_vector]]_vars

\* C23 witness: after a tick in which an agent turned, a queue was
\* unregistered, a snapshot was taken of the new tick and the registry was
\* listed: it holds the instance, at its new tick.
C23_Witness ==
    /\ tick = 1
    /\ flock_ticks = 1
    /\ \E i \in Fish : ~SameVector(flock[i].velocity_unit_vector,
                                    flock_prev[i].velocity_unit_vector)
    /\ n_chans > Cardinality(subscribers)
    /\ snaps # <<>>
    /\ snaps[Len(snaps)].tick = 1
    /\ resp.op = "list"
    /\ resp.items = <<[simulation_id |-> instance_id, num_agents |-> FlockSize,
                       mode |-> "swarm", tick |-> 1]>>


\* The agents the tick started from, in the opposite order: another state of
\* the same model.
Mirrored == [i \in Fish |-> flock_prev[FlockSize + 1 - i]]

\* C24: before the first tick and after a tick every entry of the distance and
\* direction tables is the sentinel, so the next tick, whatever agents it
\* starts from, measures every pair anew: the tables it computes with are those
\* it would compute from fresh tables, with nothing of the last tick in them.
C24_CachesResetBetweenTicks ==
    /\ \A i, j \in Fish : flock_table[i][j] = inf_entry
    /\ TickDone =>
           update_agent_distance_table(flock_table, Mirrored)
               = update_agent_distance_table(inf_table, Mirrored)

\* C24 witness: a tick measured a pair within reach and turned an agent, and
\* the same pair stands at another distance in the mirrored agents, where
\* the entries of that tick would be wrong: a tick computed with them gives
\* other headings.
C24_Witness ==
    /\ TickDone
    /\ flock_table = inf_table
    /\ \E i \in Fish : \E j \in InReach(i) :
           /\ ~SameVector(flock[i].velocity_unit_vector,
                          flock_prev[i].velocity_unit_vector)
           /\ Abs(Mirrored[j].pos.x - Mirrored[i].pos.x) # Apart(i, j)
    /\ swarm_step(Mirrored, update_agent_distance_table(inf_table, flock_prev),
                  flock_mode)
           # swarm_step(Mirrored, inf_table, flock_mode)


\* The tick numbers of the tick payloads of queue q, in order.
TicksOn(q) ==
    LET ks == {k \in 1..Len(queues[q]) : queues[q][k].type = "tick"}
    IN  {queues[q][k].tick : k \in ks}

\* C25: for a handler that registered and then took its snapshot, with tick s,
\* the first tick payload on its queue has a tick number of at most s + 1, and
\* as long as the queue is registered it holds every tick number greater than
\* s the instance has produced, and no other.
C25_SnapshotThenNoTickMissed ==
    \A q \in subscribers :
        LET s == baseline[q]
        IN  /\ s >= 0
            /\ queues[q] # <<>> /\ queues[q][1].type = "tick"
                   => queues[q][1].tick <= s + 1
            /\ TicksOn(q) = (s + 1)..tick

\* C25 witness: two handlers, one that opened before the first tick and holds
\* both ticks, one that opened after the first tick and holds the second.
C25_Witness ==
    /\ tick = MaxTick
    /\ \E q1, q2 \in subscribers :
           /\ baseline[q1] = 0
           /\ Len(queues[q1]) = MaxTick
           /\ baseline[q2] = MaxTick - 1
           /\ Len(queues[q2]) = 1
           /\ queues[q2][1].type = "tick"
           /\ queues[q2][1].tick = MaxTick


\* C26: the instance never loses the handle of a live loop: the handle names
\* every loop task that was created and has not exited, and it is cleared only
\* when the task it names has exited (the one the clearing _stop() cancelled and
\* awaited), never while it names a newer loop.
C26_HandleOfLiveLoopKept ==
    /\ [](\A r \in TaskIds : live(r) => runner_task = r)
    /\ [][(runner_task # 0 /\ runner_task' = 0) => done(runner_task)]_vars

====
